---- MODULE Spec2Model ----
(***************************************************************************)
(* sql-alertmanager: the debounce state store (alertstate.go), the alert   *)
(* identity function key, and the per-rule evaluation loop of main.go with *)
(* its reconciliation against Alertmanager's active alerts.                *)
(*                                                                         *)
(* Strings are sequences of one-character strings, so that key renders and *)
(* sorts label names as the Go code does.  Times are integers.             *)
(***************************************************************************)
EXTENDS Integers, Sequences, FiniteSets, TLC

\* ------------------------------------------------------------------ bounds
\* largest value of the clock
MaxTime == 2
\* most rows one query returns
MaxRows == 2
\* most restarts of the process
MaxBoots == 1
MaxFreq == 4
MaxTimeout == 3

\* ------------------------------------------------------------- strings
\* the characters of the model's strings, in byte order
Chars == <<",", "1", "2", "4", "=", "a", "b", "c", "e", "h", "l", "m", "n", "r", "s", "t">>

Code(c) == CHOOSE i \in 1..Len(Chars) : Chars[i] = c

\* a < b as Go compares strings (bytewise, a proper prefix is smaller)
RECURSIVE StrLess(_, _)
StrLess(a, b) ==
    IF a = <<>> THEN b # <<>>
    ELSE IF b = <<>> THEN FALSE
    ELSE IF Head(a) = Head(b) THEN StrLess(Tail(a), Tail(b))
    ELSE Code(Head(a)) < Code(Head(b))

\* sort.Strings over a set of distinct strings
RECURSIVE SortStrings(_)
SortStrings(S) ==
    IF S = {} THEN <<>>
    ELSE LET m == CHOOSE x \in S : \A y \in S \ {x} : StrLess(x, y)
         IN  <<m>> \o SortStrings(S \ {m})

S_alertname == <<"a", "l", "e", "r", "t", "n", "a", "m", "e">>
S_b == <<"b">>
S_c == <<"c">>
S_s == <<"s">>
Empty == <<>>

\* ------------------------------------------------------------- identity
RECURSIVE KeyJoin(_, _, _)
KeyJoin(labels, keys, i) ==
    IF i > Len(keys) THEN <<>>
    ELSE (IF i > 1 THEN <<",">> ELSE <<>>)
         \o keys[i] \o <<"=">> \o labels[keys[i]]
         \o KeyJoin(labels, keys, i + 1)

\* func key(labels models.LabelSet) string
key(labels) ==
    IF DOMAIN labels = {} THEN <<>>
    ELSE KeyJoin(labels, SortStrings(DOMAIN labels), 1)

\* sort.Strings that leaves the slice as it is
SortSlice_Unsorted(keys) == keys

\* sort.Strings(keys) on the slice of the label names
SortSlice(keys) == SortStrings({ keys[i] : i \in 1..Len(keys) })

\* key when range labels yields the label names in the order iter
KeyIn(labels, iter) ==
    IF DOMAIN labels = {} THEN <<>>
    ELSE KeyJoin(labels, SortSlice(iter), 1)

\* ------------------------------------------------------------- configuration
\* the rule names a configuration may hold
R1 == <<"r", "1">>
R2 == <<"r", "2">>
\* a rule name that holds the separators of key
R3 == <<"r", "1", ",", "b", "=", "1">>
\* a rule with two label columns
R4 == <<"r", "4">>
RuleNames == {R1, R2, R3, R4}

\* r.LabelCols and r.AnnotationCols of every rule
LabelCols == <<S_b>>
AnnotationCols == <<S_s>>

\* r.For of every rule
For == 1

\* the values a query column can hold (NULL reads as the empty string)
LabelVals == {Empty, <<"1">>}
AnnVals == {<<"h">>}

\* a row of the query result: column name -> value
Rows == { [c \in {S_b, S_s} |-> IF c = S_b THEN bv ELSE sv] : bv \in LabelVals, sv \in AnnVals }

\* r.LabelCols of rule r
LabelColsOf(r) == IF r = R4 THEN <<S_b, S_c>> ELSE LabelCols

\* the rows the query of rule R4 returns: a value that holds the separators of key
Rows4 ==
    { [c \in {S_b, S_c, S_s} |->
         IF c = S_s THEN <<"h">> ELSE IF c = S_b THEN <<"1", ",", "c", "=", "2">> ELSE Empty],
      [c \in {S_b, S_c, S_s} |->
         IF c = S_s THEN <<"h">> ELSE IF c = S_b THEN <<"1">> ELSE <<"2">>] }

\* the rows the query of rule r can return
RowsOf(r) == IF r = R4 THEN Rows4 ELSE Rows

\* the absent time (a zero EndsAt, a missing firstSeen)
NoTime == -1

\* ------------------------------------------------------------- alerts
\* labels of the alert built from a row: the non-empty label columns, then alertname
RowLabels(r, row) ==
    LET cols == LabelColsOf(r)
        cs == { cols[i] : i \in { j \in 1..Len(cols) : row[cols[j]] # Empty } }
    IN  [c \in cs \cup {S_alertname} |-> IF c = S_alertname THEN r ELSE row[c]]

\* annotations of the alert built from a row: the non-empty annotation columns
RowAnnotations(row) ==
    LET cs == { AnnotationCols[i] :
                  i \in { j \in 1..Len(AnnotationCols) : row[AnnotationCols[j]] # Empty } }
    IN  [c \in cs |-> row[c]]

\* &models.PostableAlert{Annotations, StartsAt: time.Now(), Alert{Labels}}
RowAlert(r, row, t) ==
    [labels |-> RowLabels(r, row), annotations |-> RowAnnotations(row),
     startsAt |-> t, endsAt |-> NoTime]

\* the label mappings rule r can produce
LabelSets(r) == { RowLabels(r, row) : row \in RowsOf(r) }

\* the keys the store is called with
Keys == { key(l) : l \in UNION { LabelSets(r) : r \in RuleNames } }

\* &models.PostableAlert{Alert: existing.Alert, StartsAt: *existing.StartsAt, EndsAt: now}
ResolvedAlert(existing, t) ==
    [labels |-> existing.labels, annotations |-> <<>>,
     startsAt |-> existing.startsAt, endsAt |-> t]

\* ------------------------------------------------------------- debounce store
\* MarkActive that stamps the record on every call
MarkActive_Restamp(st, k, t) == (k :> t) @@ st

\* Manager.MarkActive on the in-memory map
MarkActive(st, k, t) == IF k \in DOMAIN st THEN st ELSE (k :> t) @@ st

\* MarkResolved that leaves the record in place
MarkResolved_Keeps(st, k) == st

\* Manager.MarkResolved on the in-memory map
MarkResolved(st, k) == [x \in DOMAIN st \ {k} |-> st[x]]

\* ShouldFire without the comparison against forDuration
ShouldFire_AnyAge(st, k, forDuration, t) == k \in DOMAIN st

\* ShouldFire that lets a zero forDuration fire an identity without a record
ShouldFire_ZeroFiresUnseen(st, k, forDuration, t) ==
    IF k \notin DOMAIN st THEN forDuration = 0 ELSE t - st[k] >= forDuration

\* Manager.ShouldFire: time.Since(first) >= forDuration
ShouldFire(st, k, forDuration, t) ==
    IF k \notin DOMAIN st THEN FALSE ELSE t - st[k] >= forDuration

\* ------------------------------------------------------------- the state file
\* the digits a timestamp is rendered with
Digits == <<"0", "1", "2", "3", "4", "5", "6", "7", "8", "9">>

\* time.Time.MarshalJSON and UnmarshalJSON: the instant as text, and back
EncodeTime(t) == <<Digits[t + 1]>>

\* a decoder that reads every instant as the zero time
DecodeTime_Zero(s) == 0

DecodeTime(s) == (CHOOSE i \in 1..Len(Digits) : Digits[i] = s[1]) - 1

\* json.MarshalIndent(m.state): the entries as text, in the order of their keys
MarshalIndent(st) ==
    LET ks == SortStrings(DOMAIN st)
    IN  [i \in 1..Len(ks) |-> <<ks[i], EncodeTime(st[ks[i]])>>]

\* json.Unmarshal(data, &m.state): the mapping the entries spell
Unmarshal(data) ==
    [k \in { data[i][1] : i \in 1..Len(data) } |->
        DecodeTime((CHOOSE e \in { data[i] : i \in 1..Len(data) } : e[1] = k)[2])]

\* a path without a file
NoFile == [kind |-> "none", data |-> <<>>]

\* a file holding the complete text of a mapping
JsonFile(st) == [kind |-> "json", data |-> MarshalIndent(st)]

\* a file os.WriteFile has truncated and not written to its end
TornFile == [kind |-> "torn", data |-> <<>>]

\* a file that does not parse: data holds the entries before the damage
BadFile(st) == [kind |-> "bad", data |-> MarshalIndent(st)]

\* Load that reports a missing file as an error
Load_MissingIsError(f) ==
    IF f.kind = "json" THEN [state |-> Unmarshal(f.data), err |-> FALSE]
    ELSE IF f.kind = "bad" THEN [state |-> Unmarshal(f.data), err |-> TRUE]
    ELSE [state |-> <<>>, err |-> TRUE]

\* Manager.Load on a new Manager: the map it leaves in memory and whether it
\* returns an error
Load(f) ==
    IF f.kind = "none" THEN [state |-> <<>>, err |-> FALSE]
    ELSE IF f.kind = "json" THEN [state |-> Unmarshal(f.data), err |-> FALSE]
    ELSE IF f.kind = "bad" THEN [state |-> Unmarshal(f.data), err |-> TRUE]
    ELSE [state |-> <<>>, err |-> TRUE]

\* ------------------------------------------------------------- state
VARIABLES
    rules,          \* conf.Rules: the names of the configured rules
    now,            \* the clock read by time.Now()
    cancelled,      \* ctx is cancelled
    state,          \* Manager.state: key -> firstSeen
    file,           \* the contents of the state file
    diskFaulty,     \* writes to the state file can fail
    backend,        \* Alertmanager's active alerts
    pc,             \* per rule: where its goroutine is
    firingAlerts,   \* per rule: the alerts built from the query rows
    filteredAlerts, \* per rule: the batch under construction
    existingAlerts, \* per rule: resp.Payload
    idx,            \* per rule: the index of the running range loop
    queryErr,       \* per rule: the cycle's query or scan failed
    fetchFailed,    \* per rule: the cycle's GetAlerts failed
    postCalled,     \* per rule: the cycle called PostAlerts
    postFailed,     \* per rule: the cycle's PostAlerts failed
    resolvedCalls,  \* per rule: the keys the cycle passed to MarkResolved
    streak,         \* per rule and label mapping: since when every query returned it
    preempted,      \* per rule: "exposed" when ctx was cancelled during its cycle,
                    \* "hit" when a call of that cycle then failed on the cancelled ctx
    tmp,            \* the contents of the temporary file next to the state file
    mu,             \* Manager.mu: the rule whose call holds it, or Empty
    call,           \* per rule: the store call its goroutine is in
    boot,           \* how the running process started: its Load and its predecessor
    flushOk,        \* the outcome of the last flush of the running process
    seenAt,         \* per key: firstSeen as stored by the first MarkActive since the
                    \* last MarkResolved of the key or the start of the process
    loaded,         \* the keys Load read that were not resolved since
    owner,          \* per key: the rule whose MarkActive created the record
    exited,         \* main has returned from wg.Wait()
    keyLog,         \* the last calls of key: labels, iteration order, result
    cycleClock      \* a rule's timeouts and the time its running cycle has taken

vars == <<rules, now, cancelled, state, file, diskFaulty, backend, pc, firingAlerts,
          filteredAlerts, existingAlerts, idx, queryErr, fetchFailed,
          postCalled, postFailed, resolvedCalls, streak, preempted,
          tmp, mu, call, boot, flushOk, seenAt, loaded, owner,
          exited, keyLog, cycleClock>>

\* the store as its callers observe it, call by call
apiVars == <<tmp, mu, call, boot, flushOk, seenAt, loaded, owner>>
storeVars == <<state, file, diskFaulty, apiVars>>
loopVars == <<firingAlerts, filteredAlerts, existingAlerts, idx>>
cycleObs == <<queryErr, fetchFailed, postCalled, postFailed, resolvedCalls, preempted>>
envVars == <<rules, now, cancelled>>
histVars == <<streak>>
sideVars == <<exited, keyLog, cycleClock>>

\* the batch as PostAlerts receives it: filteredAlerts holds pointers into firingAlerts
Deref(r, e) == IF e.ref > 0 THEN firingAlerts[r][e.ref] ELSE e.alert

Batch(r) == [i \in 1..Len(filteredAlerts[r]) |-> Deref(r, filteredAlerts[r][i])]

NoAlert == [labels |-> <<>>, annotations |-> <<>>, startsAt |-> NoTime, endsAt |-> NoTime]

\* m.flushLocked(): the file is replaced by the text of the whole map, or the
\* flush fails
flushLocked(st) ==
    /\ \E failed \in (IF diskFaulty THEN BOOLEAN ELSE {FALSE}) :
         file' = IF failed THEN file ELSE JsonFile(st)
    /\ UNCHANGED <<diskFaulty, apiVars>>

\* the timeouts before the configuration is read
NoClock == [freq |-> 0, timeout |-> 0, phase |-> "config", elapsed |-> 0]

\* a rule's goroutine outside every store call
NoCall == [op |-> "none", key |-> Empty, d |-> 0, stage |-> "none", ret |-> "none",
           flush |-> "none", at |-> NoTime, before |-> NoFile]

\* the process starts: NewManager, Load of the file f, then one goroutine for each
\* rule of rs, whatever Load returned; at is where the goroutines start
InitFor(rs, faulty, f, at) ==
    /\ rules = rs
    /\ diskFaulty = faulty
    /\ now = 0
    /\ cancelled = FALSE
    /\ state = Load(f).state
    /\ file = f
    /\ tmp = NoFile
    /\ mu = Empty
    /\ call = [r \in RuleNames |-> NoCall]
    /\ boot = [n |-> 0, kind |-> f.kind, err |-> Load(f).err, clean |-> FALSE,
               same |-> FALSE]
    /\ flushOk = "none"
    /\ seenAt = [k \in Keys |-> NoTime]
    /\ loaded = DOMAIN Load(f).state
    /\ owner = [k \in Keys |-> Empty]
    /\ preempted = [r \in RuleNames |-> "no"]
    /\ exited = FALSE
    /\ keyLog = <<>>
    /\ cycleClock = NoClock
    /\ backend = {}
    /\ pc = [r \in RuleNames |-> IF r \in rs THEN at ELSE "none"]
    /\ firingAlerts = [r \in RuleNames |-> <<>>]
    /\ filteredAlerts = [r \in RuleNames |-> <<>>]
    /\ existingAlerts = [r \in RuleNames |-> <<>>]
    /\ idx = [r \in RuleNames |-> 0]
    /\ queryErr = [r \in RuleNames |-> FALSE]
    /\ fetchFailed = [r \in RuleNames |-> FALSE]
    /\ postCalled = [r \in RuleNames |-> FALSE]
    /\ postFailed = [r \in RuleNames |-> FALSE]
    /\ resolvedCalls = [r \in RuleNames |-> <<>>]
    /\ streak = [r \in RuleNames |-> [l \in LabelSets(r) |-> NoTime]]

Init == InitFor({R1}, FALSE, NoFile, "idle")

\* ------------------------------------------------------------- the rule loop
\* case <-ticker.C: a new cycle starts
TickerFire(r) ==
    /\ pc[r] = "idle"
    /\ pc' = [pc EXCEPT ![r] = "query"]
    /\ postCalled' = [postCalled EXCEPT ![r] = FALSE]
    /\ postFailed' = [postFailed EXCEPT ![r] = FALSE]
    /\ UNCHANGED <<envVars, storeVars, backend, loopVars, queryErr, fetchFailed,
                   resolvedCalls, preempted, histVars, sideVars>>

\* case <-ctx.Done(): return
RuleStopped(r) ==
    /\ pc[r] = "idle"
    /\ cancelled
    /\ pc' = [pc EXCEPT ![r] = "stopped"]
    /\ UNCHANGED <<envVars, storeVars, backend, loopVars, cycleObs, histVars, sideVars>>

\* since when every successful query has returned label mapping l, after one more result
NextStreak(r, l, seen, err) ==
    IF l \in seen THEN (IF streak[r][l] = NoTime THEN now ELSE streak[r][l])
    ELSE IF err THEN streak[r][l] ELSE NoTime

\* the query and the scan of its rows into firingAlerts; an empty firingAlerts,
\* whether the query failed or returned no rows, returns from the goroutine.
\* queryCtx is derived from ctx: once ctx is cancelled QueryContext fails
Query(r) ==
    /\ pc[r] = "query"
    /\ \E err \in (IF cancelled THEN {TRUE} ELSE BOOLEAN),
          n \in (IF cancelled THEN {0} ELSE 0..MaxRows) : \E rows \in [1..n -> RowsOf(r)] :
         /\ firingAlerts' = [firingAlerts EXCEPT ![r] = [i \in 1..n |-> RowAlert(r, rows[i], now)]]
         /\ queryErr' = [queryErr EXCEPT ![r] = err]
         /\ streak' = [streak EXCEPT ![r] =
               [l \in LabelSets(r) |->
                  NextStreak(r, l, { RowLabels(r, rows[i]) : i \in 1..n }, err)]]
         /\ pc' = [pc EXCEPT ![r] = IF n = 0 THEN "returned" ELSE "filter"]
         /\ idx' = [idx EXCEPT ![r] = IF n = 0 THEN 0 ELSE 1]
    /\ preempted' = [preempted EXCEPT ![r] = IF @ = "exposed" THEN "hit" ELSE @]
    /\ UNCHANGED <<rules, now, cancelled, storeVars, backend, filteredAlerts,
                   existingAlerts, fetchFailed, postCalled, postFailed, resolvedCalls,
                   sideVars>>

\* one pass of the loop over firingAlerts: store.MarkActive(k), then
\* if store.ShouldFire(k, r.For) { filteredAlerts = append(filteredAlerts, alert) }
FilterStep(r) ==
    /\ pc[r] = "filter"
    /\ LET k == key(firingAlerts[r][idx[r]].labels)
       IN  /\ state' = MarkActive(state, k, now)
           /\ IF k \in DOMAIN state THEN UNCHANGED <<file, diskFaulty, apiVars>>
              ELSE flushLocked(state')
           /\ filteredAlerts' = [filteredAlerts EXCEPT ![r] =
                 IF ShouldFire(state', k, For, now)
                 THEN Append(@, [ref |-> idx[r], alert |-> NoAlert])
                 ELSE @]
    /\ IF idx[r] < Len(firingAlerts[r])
       THEN /\ idx' = [idx EXCEPT ![r] = @ + 1]
            /\ UNCHANGED pc
       ELSE /\ idx' = [idx EXCEPT ![r] = 0]
            /\ pc' = [pc EXCEPT ![r] = "fetch"]
    /\ UNCHANGED <<envVars, backend, firingAlerts, existingAlerts, cycleObs, histVars, sideVars>>

\* the active alerts the backend returns for the filter alertname=r.Name
ActiveFor(r) ==
    { a \in backend : S_alertname \in DOMAIN a.labels /\ a.labels[S_alertname] = r }

\* the orders in which a set can be listed
Orderings(S) ==
    { f \in [1..Cardinality(S) -> S] : \A i, j \in 1..Cardinality(S) : f[i] = f[j] => i = j }

\* GetAlerts whose failure is logged without returning
GetAlerts_NoReturn(r) ==
    /\ pc[r] = "fetch"
    /\ \/ /\ fetchFailed' = [fetchFailed EXCEPT ![r] = TRUE]
          /\ pc' = [pc EXCEPT ![r] = "post"]
          /\ UNCHANGED <<existingAlerts, idx>>
       \/ \E payload \in Orderings(ActiveFor(r)) :
          /\ ~cancelled
          /\ existingAlerts' = [existingAlerts EXCEPT ![r] = payload]
          /\ idx' = [idx EXCEPT ![r] = IF payload = <<>> THEN 0 ELSE 1]
          /\ pc' = [pc EXCEPT ![r] = IF payload = <<>> THEN "post" ELSE "recon"]
          /\ UNCHANGED fetchFailed
    /\ preempted' = [preempted EXCEPT ![r] = IF @ = "exposed" THEN "hit" ELSE @]
    /\ UNCHANGED <<envVars, storeVars, backend, firingAlerts, filteredAlerts,
                   queryErr, postCalled, postFailed, resolvedCalls, histVars, sideVars>>

\* amClient.Alert.GetAlerts: a failure returns from the goroutine; getCtx is
\* derived from ctx, so the call fails once ctx is cancelled
GetAlerts(r) ==
    /\ pc[r] = "fetch"
    /\ \/ /\ fetchFailed' = [fetchFailed EXCEPT ![r] = TRUE]
          /\ pc' = [pc EXCEPT ![r] = "returned"]
          /\ UNCHANGED <<existingAlerts, idx>>
       \/ \E payload \in Orderings(ActiveFor(r)) :
          /\ ~cancelled
          /\ existingAlerts' = [existingAlerts EXCEPT ![r] = payload]
          /\ idx' = [idx EXCEPT ![r] = IF payload = <<>> THEN 0 ELSE 1]
          /\ pc' = [pc EXCEPT ![r] = IF payload = <<>> THEN "post" ELSE "recon"]
          /\ UNCHANGED fetchFailed
    /\ preempted' = [preempted EXCEPT ![r] = IF @ = "exposed" THEN "hit" ELSE @]
    /\ UNCHANGED <<envVars, storeVars, backend, firingAlerts, filteredAlerts,
                   queryErr, postCalled, postFailed, resolvedCalls, histVars, sideVars>>

\* the search run over the candidates that passed ShouldFire only
Matches_Candidates(r, existing) ==
    { i \in 1..Len(firingAlerts[r]) :
        /\ firingAlerts[r][i].labels = existing.labels
        /\ \E j \in 1..Len(filteredAlerts[r]) : filteredAlerts[r][j].ref = i }

\* the indexes of firingAlerts whose labels reflect.DeepEqual those of existing
Matches(r, existing) ==
    { i \in 1..Len(firingAlerts[r]) : firingAlerts[r][i].labels = existing.labels }

Least(S) == CHOOSE i \in S : \A j \in S : i <= j

\* one pass of the loop over existingAlerts
Reconcile(r) ==
    /\ pc[r] = "recon"
    /\ LET existing == existingAlerts[r][idx[r]]
           found == Matches(r, existing)
       IN  IF found # {}
           THEN /\ firingAlerts' = [firingAlerts EXCEPT
                                      ![r][Least(found)].startsAt = existing.startsAt]
                /\ UNCHANGED <<filteredAlerts, storeVars, resolvedCalls>>
           ELSE /\ filteredAlerts' = [filteredAlerts EXCEPT ![r] =
                       Append(@, [ref |-> 0, alert |-> ResolvedAlert(existing, now)])]
                /\ state' = MarkResolved(state, key(existing.labels))
                /\ IF key(existing.labels) \in DOMAIN state
                   THEN flushLocked(state') ELSE UNCHANGED <<file, diskFaulty, apiVars>>
                /\ resolvedCalls' = [resolvedCalls EXCEPT ![r] =
                       Append(@, key(existing.labels))]
                /\ UNCHANGED firingAlerts
    /\ IF idx[r] < Len(existingAlerts[r])
       THEN /\ idx' = [idx EXCEPT ![r] = @ + 1]
            /\ UNCHANGED pc
       ELSE /\ idx' = [idx EXCEPT ![r] = 0]
            /\ pc' = [pc EXCEPT ![r] = "post"]
    /\ UNCHANGED <<envVars, backend, existingAlerts, queryErr, fetchFailed,
                   postCalled, postFailed, preempted, histVars, sideVars>>

\* ------------------------------------------------------------- the backend
Min(a, b) == IF a <= b THEN a ELSE b

\* Alertmanager takes one posted alert: an end timestamp closes the alert with those
\* labels, none opens it or refreshes it (keeping the earliest start)
Accept(am, e) ==
    LET old == { a \in am : a.labels = e.labels }
    IN  IF e.endsAt # NoTime THEN am \ old
        ELSE (am \ old) \cup
             { [labels |-> e.labels, annotations |-> e.annotations,
                startsAt |-> IF old = {} THEN e.startsAt
                             ELSE Min(e.startsAt, (CHOOSE a \in old : TRUE).startsAt),
                endsAt |-> NoTime] }

RECURSIVE AcceptAll(_, _, _)
AcceptAll(am, batch, i) ==
    IF i > Len(batch) THEN am ELSE AcceptAll(Accept(am, batch[i]), batch, i + 1)

\* amClient.Alert.PostAlerts(filteredAlerts), whatever the batch holds; postCtx is
\* derived from ctx, so the call fails once ctx is cancelled; the iteration ends
\* and its locals go out of scope
PostAlerts(r) ==
    /\ pc[r] = "post"
    /\ postCalled' = [postCalled EXCEPT ![r] = TRUE]
    /\ \/ /\ ~cancelled
          /\ backend' = AcceptAll(backend, Batch(r), 1)
          /\ UNCHANGED postFailed
       \/ /\ postFailed' = [postFailed EXCEPT ![r] = TRUE]
          /\ UNCHANGED backend
    /\ pc' = [pc EXCEPT ![r] = "idle"]
    /\ firingAlerts' = [firingAlerts EXCEPT ![r] = <<>>]
    /\ filteredAlerts' = [filteredAlerts EXCEPT ![r] = <<>>]
    /\ existingAlerts' = [existingAlerts EXCEPT ![r] = <<>>]
    /\ resolvedCalls' = [resolvedCalls EXCEPT ![r] = <<>>]
    /\ queryErr' = [queryErr EXCEPT ![r] = FALSE]
    /\ preempted' = [preempted EXCEPT ![r] = IF @ = "exposed" THEN "hit" ELSE @]
    /\ UNCHANGED <<envVars, storeVars, idx, fetchFailed, streak, sideVars>>

\* ------------------------------------------------------------- the environment
\* time passes
Tick ==
    /\ now < MaxTime
    /\ now' = now + 1
    /\ UNCHANGED <<rules, cancelled, storeVars, backend, pc, loopVars,
                   cycleObs, histVars, sideVars>>

\* sig := <-sigs; cancel()
Cancel ==
    /\ ~cancelled
    /\ cancelled' = TRUE
    /\ preempted' = [r \in RuleNames |->
          IF pc[r] \in {"query", "filter", "fetch", "recon", "post"} THEN "exposed" ELSE "no"]
    /\ UNCHANGED <<rules, now, storeVars, backend, pc, loopVars, queryErr, fetchFailed,
                   postCalled, postFailed, resolvedCalls, histVars, sideVars>>

\* the goroutines that have returned, and with that called wg.Done()
Done == { r \in rules : pc[r] \in {"stopped", "returned"} }

\* main returning without wg.Wait()
Exit_NoWait ==
    /\ cancelled
    /\ ~exited
    /\ exited' = TRUE
    /\ UNCHANGED <<envVars, storeVars, backend, pc, loopVars, cycleObs, histVars,
                   keyLog, cycleClock>>

\* after cancel(): wg.Wait() returns once every goroutine has returned, and main ends
Exit ==
    /\ cancelled
    /\ ~exited
    /\ Done = rules
    /\ exited' = TRUE
    /\ UNCHANGED <<envVars, storeVars, backend, pc, loopVars, cycleObs, histVars,
                   keyLog, cycleClock>>

RuleStep(r) ==
    \/ TickerFire(r)
    \/ RuleStopped(r)
    \/ Query(r)
    \/ FilterStep(r)
    \/ GetAlerts(r)
    \/ Reconcile(r)
    \/ PostAlerts(r)

Next ==
    \/ \E r \in RuleNames : RuleStep(r)
    \/ Tick
    \/ Cancel
    \/ Exit

Spec == Init /\ [][Next]_vars

\* the process with the one rule R4, whose label mappings share a key
CollideInit == InitFor({R4}, FALSE, NoFile, "idle")

CollideSpec == CollideInit /\ [][Next]_vars

\* ---- the time one cycle of a rule takes ----

\* the deadline of queryCtx: r.EvaluateFreq / 2, a division of integers
QueryTimeout(freq) == freq \div 2

TimedFrame ==
    UNCHANGED <<envVars, storeVars, backend, pc, loopVars, cycleObs, histVars, exited, keyLog>>

TimedInit == InitFor({R1}, FALSE, NoFile, "timed")

\* the configuration is read: the rule's evaluateFreq and the flag maxRequestTimeout
Configure ==
    /\ cycleClock.phase = "config"
    /\ \E f \in 1..MaxFreq : \E t \in 1..MaxTimeout :
         cycleClock' = [freq |-> f, timeout |-> t, phase |-> "wait", elapsed |-> 0]
    /\ TimedFrame

\* the ticker fires and a cycle starts
CycleStart ==
    /\ cycleClock.phase \in {"wait", "done"}
    /\ cycleClock' = [cycleClock EXCEPT !.phase = "query", !.elapsed = 0]
    /\ TimedFrame

\* a call under a context with deadline limit takes d: it returns before the deadline,
\* with a result or an error, or it is given up at the deadline
TimedCall(limit, d, ok) == d <= limit /\ (ok => d < limit)

\* db.QueryContext under queryCtx; without rows the goroutine returns
QueryFor ==
    /\ cycleClock.phase = "query"
    /\ \E d \in 0..MaxFreq : \E ok \in BOOLEAN :
         /\ TimedCall(QueryTimeout(cycleClock.freq), d, ok)
         /\ cycleClock' = [cycleClock EXCEPT !.phase = IF ok THEN "fetch" ELSE "returned",
                                             !.elapsed = @ + d]
    /\ TimedFrame

\* GetAlerts under getCtx; on an error the goroutine returns
FetchFor ==
    /\ cycleClock.phase = "fetch"
    /\ \E d \in 0..MaxTimeout : \E ok \in BOOLEAN :
         /\ TimedCall(cycleClock.timeout, d, ok)
         /\ cycleClock' = [cycleClock EXCEPT !.phase = IF ok THEN "post" ELSE "returned",
                                             !.elapsed = @ + d]
    /\ TimedFrame

\* PostAlerts under postCtx; the cycle ends whatever it returns
PostFor ==
    /\ cycleClock.phase = "post"
    /\ \E d \in 0..MaxTimeout : \E ok \in BOOLEAN :
         /\ TimedCall(cycleClock.timeout, d, ok)
         /\ cycleClock' = [cycleClock EXCEPT !.phase = "done", !.elapsed = @ + d]
    /\ TimedFrame

TimedNext == Configure \/ CycleStart \/ QueryFor \/ FetchFor \/ PostFor

TimedSpec == TimedInit /\ [][TimedNext]_vars

\* the rule loops keep running, the clock keeps advancing and main keeps running
LiveSpec ==
    Spec /\ WF_vars(Tick) /\ WF_vars(Exit) /\ \A r \in RuleNames : WF_vars(RuleStep(r))

\* ------------------------------------------------------------- the store, call by call
\* the keys the goroutine of rule r calls the store with
KeysOf(r) == { key(l) : l \in LabelSets(r) }

\* the forDuration values ShouldFire is asked about
Durations == {0, For}

\* the state files a process can find when it starts
InitialFiles ==
    LET st == (key(RowLabels(R1, [c \in {S_b, S_s} |-> <<"1">>])) :> 0)
    IN  {NoFile, JsonFile(st), BadFile(<<>>), BadFile(st)}

\* one rule calls the store, over restarts of the process
StoreInit ==
    \E f \in InitialFiles : InitFor({R1}, TRUE, f, "calls")

\* two rules call the store of one process
SharedInit ==
    \E rs \in {{R1, R2}, {R1, R3}} : InitFor(rs, FALSE, NoFile, "calls")

\* what a store call leaves alone
StoreFrame == UNCHANGED <<envVars, diskFaulty, backend, pc, loopVars, cycleObs, histVars, sideVars, boot>>

\* the goroutine of rule r calls MarkActive, MarkResolved or ShouldFire
CallStore(r) ==
    /\ pc[r] = "calls"
    /\ call[r].op = "none"
    /\ \E op \in {"MarkActive", "MarkResolved", "ShouldFire"}, k \in KeysOf(r),
          d \in Durations :
         /\ op # "ShouldFire" => d = 0
         /\ call' = [call EXCEPT ![r] = [NoCall EXCEPT !.op = op, !.key = k, !.d = d,
                                                      !.stage = "lock"]]
    /\ UNCHANGED <<state, file, tmp, mu, flushOk, seenAt, loaded, owner>>
    /\ StoreFrame

\* m.mu.Lock() that does not wait for the holder
Lock_NoMutex(r) ==
    /\ call[r].stage = "lock"
    /\ mu' = r
    /\ call' = [call EXCEPT ![r].stage = "body", ![r].before = file]
    /\ UNCHANGED <<state, file, tmp, flushOk, seenAt, loaded, owner>>
    /\ StoreFrame

\* m.mu.Lock()
Lock(r) ==
    /\ call[r].stage = "lock"
    /\ mu = Empty
    /\ mu' = r
    /\ call' = [call EXCEPT ![r].stage = "body", ![r].before = file]
    /\ UNCHANGED <<state, file, tmp, flushOk, seenAt, loaded, owner>>
    /\ StoreFrame

\* the call's work on m.state, up to its flushLocked or its return value
Body(r) ==
    /\ call[r].stage = "body"
    /\ LET k == call[r].key
           op == call[r].op
           mutates == \/ op = "MarkActive" /\ k \notin DOMAIN state
                      \/ op = "MarkResolved" /\ k \in DOMAIN state
       IN  /\ state' = IF op = "MarkActive" THEN MarkActive(state, k, now)
                       ELSE IF op = "MarkResolved" THEN MarkResolved(state, k)
                       ELSE state
           /\ call' = [call EXCEPT
                 ![r].at = now,
                 ![r].stage = IF mutates THEN "open" ELSE "unlock",
                 ![r].ret = IF mutates THEN "none"
                            ELSE IF op # "ShouldFire" THEN "nil"
                            ELSE IF ShouldFire(state, k, call[r].d, now) THEN "true"
                            ELSE "false"]
           /\ flushOk' = IF mutates THEN "pending" ELSE flushOk
           /\ seenAt' = [seenAt EXCEPT ![k] =
                 IF op = "MarkActive" THEN (IF @ = NoTime THEN state'[k] ELSE @)
                 ELSE IF op = "MarkResolved" THEN NoTime
                 ELSE @]
           /\ loaded' = IF op = "MarkResolved" THEN loaded \ {k} ELSE loaded
           /\ owner' = [owner EXCEPT ![k] =
                 IF ~mutates THEN @ ELSE IF op = "MarkActive" THEN r ELSE Empty]
    /\ UNCHANGED <<file, tmp, mu>>
    /\ StoreFrame

\* a failed step of flushLocked whose error is not returned
FlushFails_Swallowed(r) ==
    /\ diskFaulty
    /\ call' = [call EXCEPT ![r].stage = "unlock", ![r].ret = "nil", ![r].flush = "failed"]
    /\ flushOk' = "failed"

\* a step of flushLocked fails: the call returns the error
FlushFails(r) ==
    /\ diskFaulty
    /\ call' = [call EXCEPT ![r].stage = "unlock", ![r].ret = "err", ![r].flush = "failed"]
    /\ flushOk' = "failed"

\* os.WriteFile(tmp, ...) opens the temporary file and truncates it
OpenTmp(r) ==
    /\ call[r].stage = "open"
    /\ \/ /\ tmp' = TornFile
          /\ call' = [call EXCEPT ![r].stage = "write"]
          /\ UNCHANGED flushOk
       \/ /\ FlushFails(r)
          /\ UNCHANGED tmp
    /\ UNCHANGED <<state, file, mu, seenAt, loaded, owner>>
    /\ StoreFrame

\* os.WriteFile(tmp, data, 0644) writes the text of m.state
WriteTmp(r) ==
    /\ call[r].stage = "write"
    /\ \/ /\ tmp' = JsonFile(state)
          /\ call' = [call EXCEPT ![r].stage = "rename"]
          /\ UNCHANGED flushOk
       \/ /\ FlushFails(r)
          /\ UNCHANGED tmp
    /\ UNCHANGED <<state, file, mu, seenAt, loaded, owner>>
    /\ StoreFrame

\* os.Rename(tmp, m.filePath)
Rename(r) ==
    /\ call[r].stage = "rename"
    /\ \/ /\ file' = tmp
          /\ tmp' = NoFile
          /\ call' = [call EXCEPT ![r].stage = "unlock", ![r].ret = "nil", ![r].flush = "ok"]
          /\ flushOk' = "ok"
       \/ /\ FlushFails(r)
          /\ UNCHANGED <<file, tmp>>
    /\ UNCHANGED <<state, mu, seenAt, loaded, owner>>
    /\ StoreFrame

\* defer m.mu.Unlock(), and the call returns
Unlock(r) ==
    /\ call[r].stage = "unlock"
    /\ mu' = Empty
    /\ call' = [call EXCEPT ![r] = NoCall]
    /\ UNCHANGED <<state, file, tmp, flushOk, seenAt, loaded, owner>>
    /\ StoreFrame

\* the process stops where it is and is started again on the same path
Restart ==
    /\ boot.n < MaxBoots
    /\ state' = Load(file).state
    /\ boot' = [n |-> boot.n + 1, kind |-> file.kind, err |-> Load(file).err,
                clean |-> flushOk = "ok", same |-> Load(file).state = state]
    /\ mu' = Empty
    /\ call' = [r \in RuleNames |-> NoCall]
    /\ flushOk' = "none"
    /\ seenAt' = [k \in Keys |-> NoTime]
    /\ loaded' = DOMAIN Load(file).state
    /\ owner' = [k \in Keys |-> Empty]
    /\ UNCHANGED <<envVars, file, tmp, diskFaulty, backend, pc, loopVars, cycleObs, histVars, sideVars>>

StoreStep(r) ==
    \/ CallStore(r)
    \/ Lock(r)
    \/ Body(r)
    \/ OpenTmp(r)
    \/ WriteTmp(r)
    \/ Rename(r)
    \/ Unlock(r)

StoreNext ==
    \/ \E r \in RuleNames : StoreStep(r)
    \/ Restart
    \/ Tick

StoreSpec == StoreInit /\ [][StoreNext]_vars

SharedNext ==
    \/ \E r \in RuleNames : StoreStep(r)
    \/ Tick

SharedSpec == SharedInit /\ [][SharedNext]_vars

\* ------------------------------------------------------------- key, call by call
\* the label mappings key is called with: those of the rules, and the empty one
LabelMaps == {<<>>} \cup UNION { LabelSets(r) : r \in RuleNames }

KeyInit == InitFor({}, FALSE, NoFile, "none")

\* key(labels) is called, range labels yielding the names in some order; the log
\* keeps the last two calls
ApplyKey ==
    /\ \E l \in LabelMaps : \E iter \in Orderings(DOMAIN l) :
         LET c == [labels |-> l, iter |-> iter, out |-> KeyIn(l, iter)]
         IN  keyLog' = IF Len(keyLog) < 2 THEN Append(keyLog, c) ELSE <<keyLog[2], c>>
    /\ UNCHANGED <<envVars, storeVars, backend, pc, loopVars, cycleObs, histVars,
                   exited, cycleClock>>

KeyNext == ApplyKey

KeySpec == KeyInit /\ [][KeyNext]_vars

\* ------------------------------------------------------------- properties
\* the label mappings of the rows of the cycle's query
FiringLabels(r) == { firingAlerts[r][i].labels : i \in 1..Len(firingAlerts[r]) }

\* the label mappings of the candidate-submit set (the instances that passed ShouldFire)
CandidateLabels(r) ==
    { firingAlerts[r][filteredAlerts[r][i].ref].labels :
        i \in { j \in 1..Len(filteredAlerts[r]) : filteredAlerts[r][j].ref > 0 } }

\* the entries of the batch for label mapping l, firing ones or resolved ones
Entries(r, l, resolved) ==
    { i \in 1..Len(filteredAlerts[r]) :
        /\ Batch(r)[i].labels = l
        /\ (Batch(r)[i].endsAt # NoTime) = resolved }

\* the MarkResolved calls of the cycle made with key k
ResolvedWith(r, k) == { i \in 1..Len(resolvedCalls[r]) : resolvedCalls[r][i] = k }

\* the active alerts the cycle fetched
Existing(r) == { existingAlerts[r][i] : i \in 1..Len(existingAlerts[r]) }

\* C3: at the call of PostAlerts every entry without an end timestamp has a record in
\* the store that is at least For old, and every instance of the cycle, submitted or
\* dropped, still has its record; a dropped instance was younger than For when queried
C3_DebounceSuppression ==
    \A r \in rules : pc[r] = "post" =>
        /\ \A i \in 1..Len(filteredAlerts[r]) :
             Batch(r)[i].endsAt = NoTime =>
                /\ key(Batch(r)[i].labels) \in DOMAIN state
                /\ now - state[key(Batch(r)[i].labels)] >= For
        /\ \A i \in 1..Len(firingAlerts[r]) :
             /\ key(firingAlerts[r][i].labels) \in DOMAIN state
             /\ (\A j \in 1..Len(filteredAlerts[r]) : filteredAlerts[r][j].ref # i)
                  => state[key(firingAlerts[r][i].labels)] + For > firingAlerts[r][i].startsAt

\* a batch about to be posted in a cycle that submitted one instance and dropped another
C3_Witness ==
    \E r \in rules :
        /\ pc[r] = "post"
        /\ \E i, j \in 1..Len(firingAlerts[r]) :
             /\ \E n \in 1..Len(filteredAlerts[r]) : filteredAlerts[r][n].ref = i
             /\ \A n \in 1..Len(filteredAlerts[r]) : filteredAlerts[r][n].ref # j

C5_ResolutionAgainstCandidates ==
    \A r \in rules : pc[r] = "post" =>
        \A a \in Existing(r) :
            a.labels \notin CandidateLabels(r) =>
                /\ Cardinality(Entries(r, a.labels, TRUE)) = 1
                /\ Cardinality(ResolvedWith(r, key(a.labels))) = 1

\* C5 amended: at the call of PostAlerts, every fetched active alert with no row of
\* equal labels in the cycle's query result has exactly one resolved entry in the batch
\* and one MarkResolved call made with the key of its labels; an active alert whose
\* labels a row of the cycle carries, debounced or not, has neither
C5_ResolutionAgainstFiring ==
    \A r \in rules : pc[r] = "post" =>
        \A a \in Existing(r) :
            IF a.labels \notin FiringLabels(r)
            THEN /\ Cardinality(Entries(r, a.labels, TRUE)) = 1
                 /\ Cardinality(ResolvedWith(r, key(a.labels))) = 1
            ELSE /\ Entries(r, a.labels, TRUE) = {}
                 /\ ResolvedWith(r, key(a.labels)) = {}

\* a batch that resolves one active alert while another active alert is firing but
\* still debounced
C5_Witness ==
    \E r \in rules :
        /\ pc[r] = "post"
        /\ \E a, b \in Existing(r) :
             /\ a.labels \notin FiringLabels(r)
             /\ Entries(r, a.labels, TRUE) # {}
             /\ b.labels \in FiringLabels(r)
             /\ b.labels \notin CandidateLabels(r)

\* C6: at the call of PostAlerts every entry without an end timestamp whose labels equal
\* those of a fetched active alert carries that alert's start timestamp
C6_StartContinuity ==
    \A r \in rules : pc[r] = "post" =>
        \A i \in 1..Len(filteredAlerts[r]) : \A a \in Existing(r) :
            (Batch(r)[i].endsAt = NoTime /\ Batch(r)[i].labels = a.labels)
                => Batch(r)[i].startsAt = a.startsAt

\* C7: the batch handed to PostAlerts holds at most one entry per identity
C7_NoDuplicates ==
    \A r \in rules : pc[r] = "post" =>
        \A i, j \in 1..Len(filteredAlerts[r]) :
            key(Batch(r)[i].labels) = key(Batch(r)[j].labels) => i = j

\* C8: PostAlerts is never reached with an empty batch
C8_NoEmptyPost ==
    \A r \in rules : pc[r] = "post" => Len(filteredAlerts[r]) > 0

\* C9: a rule's goroutine has returned only if the context was cancelled
C9_StopOnlyAfterCancel ==
    \A r \in rules : pc[r] \in {"stopped", "returned"} => cancelled

\* C4: at the call of PostAlerts every entry without an end timestamp is for a label
\* mapping that every query of the preceding For returned
C4_ContinuousFor ==
    \A r \in rules : pc[r] = "post" =>
        \A i \in 1..Len(filteredAlerts[r]) :
            Batch(r)[i].endsAt = NoTime =>
                /\ streak[r][Batch(r)[i].labels] # NoTime
                /\ now - streak[r][Batch(r)[i].labels] >= For

\* label mapping l is in its lifecycle under rule r: every query since streak[r][l]
\* returned it, exactly one row of the cycle carries it, and its record is from this streak
InLifecycle(r, l) ==
    /\ streak[r][l] # NoTime
    /\ Cardinality(Matches(r, [labels |-> l])) = 1
    /\ key(l) \in DOMAIN state
    /\ state[key(l)] >= streak[r][l]

\* before first seen + For nothing is submitted for l
C2_Pending(r, l) ==
    (pc[r] = "post" /\ InLifecycle(r, l) /\ now < state[key(l)] + For)
        => Entries(r, l, FALSE) = {} /\ Entries(r, l, TRUE) = {}

\* a cycle whose query ran at or after first seen + For has exactly one candidate for l
C2_Fires(r, l) ==
    (pc[r] = "fetch" /\ InLifecycle(r, l)
       /\ \A i \in Matches(r, [labels |-> l]) : firingAlerts[r][i].startsAt >= state[key(l)] + For)
        => Cardinality(Entries(r, l, FALSE)) = 1 /\ Entries(r, l, TRUE) = {}

\* a cycle whose query succeeded without returning l while l is open in the backend
\* does not end without a submission
C2_Submits(r, l) ==
    (pc[r] = "returned" /\ ~queryErr[r] /\ ~fetchFailed[r] /\ l \notin FiringLabels(r))
        => \A a \in ActiveFor(r) : a.labels # l

\* and its batch holds exactly one entry for l, ended within the cycle and started
\* when the open alert started
C2_Resolves(r, l) ==
    (pc[r] = "post" /\ ~queryErr[r] /\ l \notin FiringLabels(r))
        => \A a \in Existing(r) : a.labels = l =>
              /\ Entries(r, l, FALSE) = {}
              /\ Cardinality(Entries(r, l, TRUE)) = 1
              /\ \A i \in Entries(r, l, TRUE) :
                    /\ Batch(r)[i].startsAt = a.startsAt
                    /\ Batch(r)[i].endsAt <= now
                    /\ Batch(r)[i].endsAt >= a.startsAt

\* C2: the lifecycle of one identity: nothing is submitted before first seen + For, one
\* entry without end timestamp from then on, and in the first cycle whose query no
\* longer returns it (with or without other rows) one entry with an end timestamp and
\* the start originally submitted
C2_Lifecycle ==
    \A r \in rules : \A l \in LabelSets(r) :
        /\ C2_Pending(r, l)
        /\ C2_Fires(r, l)
        /\ C2_Submits(r, l)
        /\ C2_Resolves(r, l)

\* the query of the cycle of rule r that is running, or that ended the goroutine,
\* returned the label mappings S
Observed(r, S) ==
    /\ pc[r] \in {"filter", "fetch", "recon", "post", "returned"}
    /\ ~queryErr[r]
    /\ FiringLabels(r) = S

\* no query of rule r returns another set than S
Stable(r, S) ==
    pc[r] \in {"filter", "fetch", "recon", "post", "returned"}
        => FiringLabels(r) = S

\* no query, fetch or submit of rule r has failed
Succeeds(r) == ~queryErr[r] /\ ~fetchFailed[r] /\ ~postFailed[r]

\* every debounce window that was opened has run its For
Aged == \A k \in DOMAIN state : now - state[k] >= For

\* the backend's open alerts of rule r are exactly those of the label mappings S
Converged(r, S) == { a.labels : a \in ActiveFor(r) } = S

\* C1: if from some point on the queries of a rule return the same set S (the empty
\* set included), the backend calls succeed, no shutdown is requested and the
\* for-duration has passed, then the backend's open alerts for the rule end up being
\* exactly S, and stay so
C1_Convergence ==
    \A S \in SUBSET LabelSets(R1) :
        ( /\ <>[](Stable(R1, S) /\ Succeeds(R1))
          /\ []<>Observed(R1, S)
          /\ <>[]Aged
          /\ []~cancelled )
        => <>[]Converged(R1, S)

\* C20: no call of a cycle that was running when the signal was raised ends because of
\* the signal
C20_NoPreemption ==
    \A r \in rules : preempted[r] # "hit"

\* the store calls of rule r that have run and are about to return
Returning(r, op) == call[r].op = op /\ call[r].stage = "unlock"

\* C11: a ShouldFire call returns true exactly when the store holds a record for the
\* key and the time of the call minus its firstSeen is at least forDuration; without a
\* record it returns false, for a zero forDuration too
C11_ShouldFireContract ==
    \A r \in rules : Returning(r, "ShouldFire") =>
        /\ (call[r].ret = "true") <=>
              /\ call[r].key \in DOMAIN state
              /\ call[r].at - state[call[r].key] >= call[r].d
        /\ call[r].key \notin DOMAIN state => call[r].ret = "false"

\* a ShouldFire call with a zero forDuration for a key without a record, while
\* another key has one
C11_Witness ==
    \E r \in rules :
        /\ Returning(r, "ShouldFire")
        /\ call[r].d = 0
        /\ call[r].key \notin DOMAIN state
        /\ call[r].ret = "false"
        /\ state # <<>>

\* C12: from the first MarkActive of a key until its next MarkResolved, the record of
\* the key holds the firstSeen that first call stored, whatever calls follow
C12_MarkActiveIdempotent ==
    \A k \in Keys : seenAt[k] # NoTime =>
        /\ k \in DOMAIN state
        /\ state[k] = seenAt[k]

\* a MarkActive call that ran later than the call that created the record
C12_Witness ==
    \E r \in rules :
        /\ Returning(r, "MarkActive")
        /\ call[r].key \notin loaded
        /\ seenAt[call[r].key] # NoTime
        /\ call[r].at > seenAt[call[r].key]

\* C13 as stated: a record exists for a key exactly when MarkActive was called for it
\* since the later of its last MarkResolved and the start of the process
C13_RecordIffMarked ==
    \A k \in Keys : (k \in DOMAIN state) <=> (seenAt[k] # NoTime)

\* C13 amended: a record exists for a key exactly when, since its last MarkResolved,
\* MarkActive was called for it or Load read it from the state file at the start of
\* the process; a key with neither never fires, whatever the forDuration
C13_RecordIffMarkedOrLoaded ==
    \A k \in Keys :
        /\ (k \in DOMAIN state) <=> (seenAt[k] # NoTime \/ k \in loaded)
        /\ (seenAt[k] = NoTime /\ k \notin loaded)
              => \A d \in Durations : ~ShouldFire(state, k, d, now)

\* a MarkResolved call that deleted a record Load had read, while another key was
\* marked active by this process
C13_Witness ==
    \E r \in rules :
        /\ Returning(r, "MarkResolved")
        /\ call[r].flush # "none"
        /\ boot.kind = "json"
        /\ call[r].key \notin loaded
        /\ call[r].key \notin DOMAIN state
        /\ \E k \in Keys : seenAt[k] # NoTime

\* C14: the state file is never a partly written one; it is absent while the map is
\* still empty, or holds the text of the in-memory map, or of the map as it was before
\* the mutation now being flushed; when
\* a call whose flush succeeded returns, the file holds the in-memory map
C14_AtomicPersistence ==
    /\ file.kind \in {"none", "json"}
    /\ \/ file = JsonFile(state)
       \/ file = NoFile /\ state = <<>>
       \/ \E r \in rules :
            /\ call[r].stage \in {"open", "write", "rename"}
            /\ file = call[r].before
            /\ mu = r
    /\ \A r \in rules :
         (call[r].stage = "unlock" /\ call[r].flush = "ok") => file = JsonFile(state)

\* one rule is about to rename its temporary file over a state file that holds
\* records, while the other waits for the lock with a mutation of its own
C14_Witness ==
    \E r1, r2 \in rules :
        /\ r1 # r2
        /\ call[r1].stage = "rename"
        /\ call[r2].stage = "lock"
        /\ call[r2].op = "MarkResolved"
        /\ call[r2].key \in DOMAIN state
        /\ file.kind = "json"
        /\ file.data # <<>>

\* C15: when the flush of a MarkActive or MarkResolved fails, the call returns an
\* error, the record it created or deleted stays created or deleted in memory (and
\* ShouldFire answers from it), and the state file is what it was before the call
C15_FlushFailureKeepsMutation ==
    \A r \in rules : (call[r].stage = "unlock" /\ call[r].flush = "failed") =>
        /\ call[r].ret = "err"
        /\ call[r].op = "MarkActive" =>
              /\ call[r].key \in DOMAIN state
              /\ state[call[r].key] = call[r].at
              /\ ShouldFire(state, call[r].key, 0, now)
        /\ call[r].op = "MarkResolved" =>
              /\ call[r].key \notin DOMAIN state
              /\ ~ShouldFire(state, call[r].key, 0, now)
        /\ file = call[r].before
        /\ file.kind # "torn"

\* a MarkResolved whose flush failed over a state file that holds the record
C15_Witness ==
    \E r \in rules :
        /\ Returning(r, "MarkResolved")
        /\ call[r].flush = "failed"
        /\ file.kind = "json"
        /\ call[r].key \in DOMAIN Unmarshal(file.data)

\* C16: after a Load that returned an error no rule goroutine runs: none calls
\* the store
C16_MalformedIsFatal ==
    boot.err => \A r \in rules : call[r].op = "none"

\* C17: a process that found no state file has a Load without error and a store that
\* answers false to ShouldFire for every key it has not marked active since
C17_MissingFileIsEmpty ==
    boot.kind = "none" =>
        /\ ~boot.err
        /\ loaded = {}
        /\ \A k \in Keys : seenAt[k] = NoTime =>
              \A d \in Durations : ~ShouldFire(state, k, d, now)

\* a process started without a state file answers a ShouldFire for an unmarked key
\* while another key is marked active
C17_Witness ==
    /\ boot.kind = "none"
    /\ \E r \in rules :
         /\ Returning(r, "ShouldFire")
         /\ call[r].d = 0
         /\ seenAt[call[r].key] = NoTime
         /\ call[r].ret = "false"
    /\ \E k \in Keys : seenAt[k] # NoTime

C19_NoInterference ==
    \A r \in rules : \A k \in KeysOf(r) : owner[k] \in {Empty, r}

\* the steps goroutine r has left at most once ctx is cancelled
StepsLeft(r) ==
    CASE pc[r] = "query" -> 1
      [] pc[r] = "fetch" -> 1
      [] pc[r] = "idle" -> 2
      [] pc[r] = "post" -> 3
      [] pc[r] = "filter" -> 2 + Len(firingAlerts[r]) - idx[r]
      [] pc[r] = "recon" -> 4 + Len(existingAlerts[r]) - idx[r]
      [] OTHER -> 0

RECURSIVE TotalLeft(_)
TotalLeft(rs) ==
    IF rs = {} THEN (IF exited THEN 0 ELSE 1)
    ELSE LET r == CHOOSE x \in rs : TRUE IN StepsLeft(r) + TotalLeft(rs \ {r})

\* C21: main returns only when every rule goroutine has returned; once the signal is
\* received, a goroutine or main can always take a step until main has returned, and
\* each such step leaves fewer steps to go, so every goroutine returns and main ends
C21_GracefulDrain ==
    /\ [](exited => Done = rules)
    /\ []((cancelled /\ ~exited) => ENABLED (Exit \/ \E r \in RuleNames : RuleStep(r)))
    /\ [][cancelled => (TotalLeft(rules)' < TotalLeft(rules) \/ UNCHANGED <<pc, idx, exited>>)]_vars

\* main has ended after a shutdown that stopped a goroutine at its wait for a tick,
\* with alerts open in the backend
C21_Witness ==
    /\ exited
    /\ \E r \in rules : pc[r] = "stopped"
    /\ backend # {}

\* the label names of the model in lexicographic order
NamesInOrder == <<S_alertname, S_b, S_c>>

\* the pairs name=value of labels for the names from position i on, in that order,
\* joined by a comma
RECURSIVE RenderFrom(_, _, _)
RenderFrom(labels, i, first) ==
    IF i > Len(NamesInOrder) THEN <<>>
    ELSE IF NamesInOrder[i] \notin DOMAIN labels THEN RenderFrom(labels, i + 1, first)
    ELSE (IF first THEN <<>> ELSE <<",">>)
         \o NamesInOrder[i] \o <<"=">> \o labels[NamesInOrder[i]]
         \o RenderFrom(labels, i + 1, FALSE)

\* C22: every call of key returns the pairs name=value in the lexicographic order of
\* the names joined by a comma, whatever order the map was iterated in; two calls with
\* equal mappings return the same string, and the empty mapping gives the empty string
C22_Canonical ==
    /\ \A i \in 1..Len(keyLog) :
         /\ keyLog[i].out = RenderFrom(keyLog[i].labels, 1, TRUE)
         /\ keyLog[i].labels = <<>> => keyLog[i].out = <<>>
    /\ \A i, j \in 1..Len(keyLog) :
         keyLog[i].labels = keyLog[j].labels => keyLog[i].out = keyLog[j].out

\* two calls with the same mapping of three labels, iterated in two different orders,
\* the first of which does not start with the smallest name
C22_Witness ==
    /\ Len(keyLog) = 2
    /\ keyLog[1].labels = keyLog[2].labels
    /\ Cardinality(DOMAIN keyLog[1].labels) = 3
    /\ keyLog[1].iter # keyLog[2].iter
    /\ keyLog[1].iter[1] # S_alertname
    /\ keyLog[1].out = keyLog[2].out

\* C25: two calls of key with different label mappings return different strings
C25_Injective ==
    \A i, j \in 1..Len(keyLog) :
        keyLog[i].labels # keyLog[j].labels => keyLog[i].out # keyLog[j].out

\* the resolved entry i of the batch of rule r is the active alert a, ended in the cycle
ResolutionOf(r, i, a) ==
    /\ Batch(r)[i].labels = a.labels
    /\ Batch(r)[i].startsAt = a.startsAt
    /\ Batch(r)[i].endsAt <= now
    /\ Batch(r)[i].endsAt >= a.startsAt

\* C24: at the call of PostAlerts every entry with an end timestamp carries the labels,
\* the annotations and the start timestamp of a fetched active alert, and an end
\* timestamp taken in the cycle
C24_ResolutionContent ==
    \A r \in rules : pc[r] = "post" =>
        \A i \in 1..Len(filteredAlerts[r]) : Batch(r)[i].endsAt # NoTime =>
            \E a \in Existing(r) :
                /\ ResolutionOf(r, i, a)
                /\ Batch(r)[i].annotations = a.annotations

\* C26: in the batch handed to PostAlerts no key belongs both to an entry without and
\* to an entry with an end timestamp, and MarkResolved was not called in the cycle with
\* the key of an entry without end timestamp
C26_FiringXorResolved ==
    \A r \in rules : pc[r] = "post" =>
        \A i \in 1..Len(filteredAlerts[r]) : Batch(r)[i].endsAt = NoTime =>
            /\ \A j \in 1..Len(filteredAlerts[r]) :
                  Batch(r)[j].endsAt # NoTime
                     => key(Batch(r)[j].labels) # key(Batch(r)[i].labels)
            /\ ResolvedWith(r, key(Batch(r)[i].labels)) = {}

\* C23: a cycle that has completed or aborted has taken less than the evaluation
\* interval, so it ended before the next tick of the rule
C23_CycleWithinInterval ==
    cycleClock.phase \in {"done", "returned"} => cycleClock.elapsed < cycleClock.freq

====
